---- MODULE Spec2Model ----
(***************************************************************************)
(* NonAutoregressiveWrapper (x_transformers/nonautoregressive_wrapper.py): *)
(* the constructor, the iterative decoder `generate`, the training         *)
(* objective `forward` and the helper `get_mask_subset_prob`.              *)
(*                                                                         *)
(* The wrapped network is an external collaborator: whatever it returns    *)
(* (logits, embeddings) and every random draw (multinomial sampling,       *)
(* torch.rand keys, coin flips) is an input drawn with \E.  Tensors are    *)
(* functions row -> position -> value, rows 1..batch, positions 1..n.      *)
(* Real numbers are fixed-point integers scaled by One, probabilities are  *)
(* exact rationals <<numerator, denominator>>.                             *)
(***************************************************************************)
EXTENDS Integers, Sequences, FiniteSets

\* ---------------------------------------------------------------- bounds
\* net.max_seq_len, the largest `steps`, the largest batch of generate and of
\* get_mask_subset_prob, the number of grid points for a uniform draw of a
\* time in [0, 1)
MaxSeqLen == 3
MaxSteps  == 3
MaxBatch  == 1
MaxSubsetBatch == 2
TimeGrid  == 3

\* ------------------------------------------------------------- constants
None == "None"
\* an unset token id; batch_size = None; sum_embeds = None
NoId == -1
NoBatch == 0
NoBias == << >>

Pos == 1 .. MaxSeqLen
\* the token ids of the net's vocabulary; the code never inspects a token id
\* except to compare it with mask_id, so two ids stand for any vocabulary
Vocab == {0, 1}
NumTokens == Cardinality(Vocab)
ScoreLevels == {0, 1}
Embeds == {"emb_a", "emb_b"}
ScheduleArgs == {"linear", "cosine", "callable", "other"}
\* probabilities as exact rationals << numerator, denominator >>; 0.15 and
\* 0.05 are the constructor's defaults
Zero == << 0, 1 >>
Unit == << 1, 1 >>
DefaultNoReplaceProb == << 15, 100 >>
DefaultRandomTokenProb == << 5, 100 >>
NoReplaceProbs == {Zero, DefaultNoReplaceProb, << 1, 2 >>}
RandomTokenProbs == {Zero, DefaultRandomTokenProb, << 1, 2 >>}
SubsetProbs == {Zero, DefaultNoReplaceProb, << 1, 2 >>, Unit}
MinMasks == {0, 1}

\* fixed-point unit for the float tensors of the schedules
One == 2 ^ 14
HalfPi == 25736

Abs(a) == IF a < 0 THEN -a ELSE a

\* tensor.long(): truncation toward zero of the fixed-point value a / One
Long(a) == IF a >= 0 THEN a \div One ELSE -((-a) \div One)

FMul(a, b) == IF (a >= 0) = (b >= 0) THEN (Abs(a) * Abs(b)) \div One
              ELSE -((Abs(a) * Abs(b)) \div One)

\* ------------------------------------------------------------- schedules
linear_schedule(t) == One - t

cosine_schedule(t) ==
    LET x  == FMul(t, HalfPi)
        x2 == FMul(x, x)
        h5 == One - (x2 \div 90)
        h4 == One - (FMul(x2, h5) \div 56)
        h3 == One - (FMul(x2, h4) \div 30)
        h2 == One - (FMul(x2, h3) \div 12)
    IN  One - (FMul(x2, h2) \div 2)

schedule_apply(fn, t) ==
    IF fn = "linear" THEN linear_schedule(t) ELSE cosine_schedule(t)

\* linspace over steps + 1 intervals, so that the last time stays below 1
linspace_short(st, i) == (i * One) \div (st + 1)

\* torch.linspace(0., 1., steps + 1)[i], i = 0 .. steps
linspace(st, i) == (i * One) \div st

VARIABLES
    pc,                   \* position: "new", "ready", "error", "gen", "done",
                          \* "fwd_no_replace", "fwd_random_token", "fwd_loss",
                          \* "fwd_done", "sub_call", "sub_done"
    schedule_arg,         \* the constructor's `schedule` argument
    schedule_fn,          \* self.schedule_fn
    steps,                \* self.steps
    self_cond,            \* self.self_cond
    mask_id,              \* self.mask_id
    no_replace_prob,      \* self.no_replace_prob
    random_token_prob,    \* self.random_token_prob
    raised,               \* exception raised by the last call, or None
    batch_size,           \* generate's batch_size argument (NoBatch or a number)
    seq, mask,            \* generate's working sequence and mask
    rnd,                  \* rounds of generate's loop completed
    all_mask_num_tokens,  \* generate's precomputed per-round mask counts
    last_embed,           \* generate's last_embed
    sum_embeds,           \* sum_embeds passed to the net in the latest call
    net_embeds,           \* embeddings the net returned in the latest call
    result,               \* value returned by generate
    fwd,                  \* forward's arguments and locals
    sub                   \* get_mask_subset_prob's arguments and result

vars == << pc, schedule_arg, schedule_fn, steps, self_cond, mask_id,
           no_replace_prob, random_token_prob, raised, batch_size,
           seq, mask, rnd, all_mask_num_tokens, last_embed, sum_embeds,
           net_embeds, result, fwd, sub >>

self_vars == << schedule_arg, schedule_fn, steps, self_cond, mask_id,
                no_replace_prob, random_token_prob >>

gen_vars == << batch_size, seq, mask, rnd, all_mask_num_tokens, last_embed, result >>

net_vars == << sum_embeds, net_embeds >>

\* batch_size = default(batch_size, 1)
Rows == 1 .. (IF batch_size = NoBatch THEN 1 ELSE batch_size)

null_embed == "null_embed"
to_self_cond(e) == << "to_self_cond", e >>

NoFwd ==
    [x_arg |-> << >>, x |-> << >>, mask |-> << >>, primary_mask |-> << >>,
     labels |-> << >>, replace_mask_id_mask |-> << >>, frac_seq_left |-> Unit,
     no_replace_prob_mask |-> << >>, random_token_prob_mask |-> << >>,
     masked |-> << >>, loss_positions |-> << >>, loss_labels |-> << >>,
     no_replace_fired |-> FALSE, random_token_fired |-> FALSE]

NoSub == [mask |-> << >>, prob |-> Zero, min_mask |-> 0, out |-> << >>]

Idle ==
    /\ raised = None
    /\ batch_size = NoBatch
    /\ seq = << >>
    /\ mask = << >>
    /\ rnd = 0
    /\ all_mask_num_tokens = << >>
    /\ last_embed = None
    /\ sum_embeds = NoBias
    /\ net_embeds = None
    /\ result = << >>
    /\ fwd = NoFwd

Init ==
    /\ pc = "new"
    /\ schedule_arg = None
    /\ schedule_fn = None
    /\ steps = 0
    /\ self_cond = FALSE
    /\ mask_id = NoId
    /\ no_replace_prob = Zero
    /\ random_token_prob = Zero
    /\ Idle
    /\ sub = NoSub

\* ---------------------------------------------------------- constructor
\* the if / if-elif-else chain of __init__: the value schedule_fn holds
\* when the chain is left, and whether the else branch raised
ScheduleChain(schedule) ==
    LET after_callable == IF schedule = "callable" THEN "callable" ELSE None
    IN  IF schedule = "linear" THEN [fn |-> "linear", err |-> None]
        ELSE IF schedule = "cosine" THEN [fn |-> "cosine", err |-> None]
        ELSE [fn |-> after_callable, err |-> "ValueError"]

Construct ==
    /\ pc = "new"
    /\ \E schedule \in ScheduleArgs, st \in 1 .. MaxSteps, sc \in BOOLEAN :
         LET chain == ScheduleChain(schedule) IN
           /\ schedule_arg' = schedule
           /\ mask_id' = NumTokens
           /\ no_replace_prob' = DefaultNoReplaceProb
           /\ random_token_prob' = DefaultRandomTokenProb
           /\ steps' = st
           /\ schedule_fn' = chain.fn
           /\ raised' = chain.err
           /\ self_cond' = IF chain.err = None THEN sc ELSE FALSE
           /\ pc' = IF chain.err = None THEN "ready" ELSE "error"
    /\ UNCHANGED << gen_vars, net_vars, fwd, sub >>

\* -------------------------------------------------------------- generate
\* the schedule read at times[:-1] instead of times[1:]
AllMaskNumTokensFromZero ==
    [r \in 1 .. steps |->
        Long(schedule_apply(schedule_fn, linspace(steps, r - 1)) * MaxSeqLen)]

\* line 142: the schedule at times[1:], times the length, truncated
AllMaskNumTokens ==
    [r \in 1 .. steps |->
        Long(schedule_apply(schedule_fn, linspace(steps, r)) * MaxSeqLen)]

GenerateStart ==
    /\ pc = "ready"
    /\ \E bs \in {NoBatch} \cup (1 .. MaxBatch) :
         LET rows == 1 .. (IF bs = NoBatch THEN 1 ELSE bs) IN
           /\ batch_size' = bs
           /\ seq' = [b \in rows |-> [i \in Pos |-> mask_id]]
           /\ mask' = [b \in rows |-> [i \in Pos |-> TRUE]]
    /\ all_mask_num_tokens' = AllMaskNumTokens
    /\ last_embed' = IF self_cond THEN null_embed ELSE None
    /\ rnd' = 0
    /\ pc' = "gen"
    /\ UNCHANGED << self_vars, raised, net_vars, result, fwd, sub >>

\* -torch.finfo(dtype).max: below every score 1 - p
NegMax == -1

\* The tensor operations below act on every batch row alike (dim = -1); they
\* are written for one row, a function position -> value.

\* every position overwritten, whatever cond says
WhereAll(cond, a, b) == [i \in DOMAIN cond |-> a[i]]

\* torch.where(cond, a, b)
Where(cond, a, b) == [i \in DOMAIN cond |-> IF cond[i] THEN a[i] ELSE b[i]]

\* t.masked_fill(cond, v)
MaskedFill(t, cond, v) == [i \in DOMAIN t |-> IF cond[i] THEN v ELSE t[i]]

\* ~m
Not(m) == [i \in DOMAIN m |-> ~m[i]]

\* m.sum(dim = -1)
Sum(m) == Cardinality({i \in DOMAIN m : m[i]})

\* selection by cut-off: every position scoring at least the k-th largest
\* score, which is more than k positions when scores tie
TopKCutOff(row, k) ==
    IF k = 0 THEN {{}}
    ELSE {{i \in DOMAIN row : row[i] >= row[j]} :
            j \in {j \in DOMAIN row :
                     /\ Cardinality({i \in DOMAIN row : row[i] > row[j]}) < k
                     /\ Cardinality({i \in DOMAIN row : row[i] >= row[j]}) >= k}}

\* row.topk(k).indices as a set: k positions none of which scores below a
\* position left out; the order among equal scores is the library's choice
TopK(row, k) ==
    {S \in SUBSET (DOMAIN row) :
        /\ Cardinality(S) = k
        /\ \A i \in S, j \in (DOMAIN row) \ S : row[i] >= row[j]}

\* torch.zeros_like(scores, dtype = bool).scatter(1, indices, True)
Scatter(dom, indices) == [i \in dom |-> i \in indices]

\* one row of one round: sampled_ids are the multinomial draws, mask_indices
\* what topk returned
RoundRow(seq_row, mask_row, sampled_ids, mask_indices) ==
    LET seq1 == Where(mask_row, sampled_ids, seq_row)
        new_mask == Scatter(Pos, mask_indices)
    IN  [mask |-> new_mask, seq |-> MaskedFill(seq1, new_mask, mask_id)]

\* the scores of the unmasked positions left as the net gave them
ScoresUnfilled(penalty, mask_row) == penalty

\* line 185: scores.masked_fill(~mask, -torch.finfo(scores.dtype).max)
Scores(penalty, mask_row) == MaskedFill(penalty, Not(mask_row), NegMax)

\* lines 179-186 for one row: the index sets scores.topk(mask_num_tokens)
\* can return, over every score tensor (1 - softmax(logits) at the sampled
\* ids) the net's logits can give; tabulated once per mask and count
TopKTable ==
    {<< mask_row, mask_num_tokens,
        {S : S \in UNION { TopK(Scores(penalty, mask_row), mask_num_tokens) :
                             penalty \in [Pos -> ScoreLevels] }} >> :
        mask_row \in [Pos -> BOOLEAN], mask_num_tokens \in 0 .. MaxSeqLen}

TopKChoices(mask_row, mask_num_tokens) ==
    (CHOOSE t \in TopKTable : t[1] = mask_row /\ t[2] = mask_num_tokens)[3]

\* every row a round can leave, over the net's logits and the sampling
RoundRowOutcomes(seq_row, mask_row, mask_num_tokens) ==
    {RoundRow(seq_row, mask_row, sampled_ids, mask_indices) :
        sampled_ids \in [Pos -> Vocab],
        mask_indices \in TopKChoices(mask_row, mask_num_tokens)}

\* the batch: rows 1 .. b, each row's outcome drawn independently
RECURSIVE RoundOutcomes(_, _)
RoundOutcomes(b, mask_num_tokens) ==
    IF b = 0 THEN {<< >>}
    ELSE {Append(rest, row) :
            rest \in RoundOutcomes(b - 1, mask_num_tokens),
            row \in RoundRowOutcomes(seq[b], mask[b], mask_num_tokens)}

\* last_embed left as it was
NextLastEmbedStale(has_self_cond, embeds, prev) == prev

\* lines 160-161
NextLastEmbed(has_self_cond, embeds, prev) ==
    IF has_self_cond THEN embeds ELSE prev

GenerateRound ==
    /\ pc = "gen"
    /\ rnd < steps
    /\ \E embeds \in Embeds :
         /\ sum_embeds' = IF self_cond THEN to_self_cond(last_embed) ELSE NoBias
         /\ net_embeds' = embeds
         /\ last_embed' = NextLastEmbed(self_cond, embeds, last_embed)
    /\ \E rows \in RoundOutcomes(Cardinality(Rows), all_mask_num_tokens[rnd + 1]) :
         /\ mask' = [r \in Rows |-> rows[r].mask]
         /\ seq' = [r \in Rows |-> rows[r].seq]
    /\ rnd' = rnd + 1
    /\ UNCHANGED << pc, self_vars, raised, batch_size, all_mask_num_tokens,
                    result, fwd, sub >>

GenerateReturn ==
    /\ pc = "gen"
    /\ rnd = steps
    /\ result' = IF batch_size = NoBatch THEN seq[1] ELSE seq
    /\ pc' = "done"
    /\ UNCHANGED << self_vars, raised, batch_size, seq, mask, rnd,
                    all_mask_num_tokens, last_embed, net_vars, fwd, sub >>

\* -------------------------------------------------- get_mask_subset_prob
\* the permutations of the positions
Perms == {p \in [Pos -> Pos] : \A i, j \in Pos : p[i] = p[j] => i = j}

\* torch.rand over a row: independent uniform draws, told apart by their
\* rank 1 .. n (they are distinct with probability one)
RandKeys == Perms

\* row.argsort(dim = -1): entry i is the position holding the i-th smallest
\* value; the order among equal values is the library's choice
Argsort(row) ==
    {p \in Perms : \A i, j \in Pos : i < j => row[p[i]] <= row[p[j]]}

Max(a, b) == IF a >= b THEN a ELSE b

\* a & b
And(a, b) == [i \in DOMAIN a |-> a[i] /\ b[i]]

AllFalse == [i \in Pos |-> FALSE]

\* the result without the closing masked_fill_
SubsetFromRandpermUnfilled(mask_row, prob, min_mask, randperm) ==
    LET num_to_mask == Max(Sum(mask_row) * prob[1], min_mask * prob[2])
        num_padding == Sum(Not(mask_row))
    IN  [i \in Pos |-> ((randperm[i] - 1) - num_padding) * prob[2] < num_to_mask]

\* lines 39 and 45-50 for one row, given line 43's argsort.  The tensor
\* holds 0-based indices, position p being index p - 1; num_to_mask is the
\* rational Max(E * prob, min_mask), compared after multiplying by prob's
\* denominator
SubsetFromRandperm(mask_row, prob, min_mask, randperm) ==
    LET num_to_mask == Max(Sum(mask_row) * prob[1], min_mask * prob[2])
        num_padding == Sum(Not(mask_row))
        subset_mask == [i \in Pos |->
            ((randperm[i] - 1) - num_padding) * prob[2] < num_to_mask]
    IN  MaskedFill(subset_mask, Not(mask_row), FALSE)


\* lines 40-43 for one row: every randperm the torch.rand draws, filled
\* with -1 outside the mask, can be argsorted into; tabulated once per mask
RandpermTable ==
    {<< mask_row,
        {p : p \in UNION {Argsort(MaskedFill(logits, Not(mask_row), -1)) :
                            logits \in RandKeys}} >> :
        mask_row \in [Pos -> BOOLEAN]}

Randperms(mask_row) == (CHOOSE t \in RandpermTable : t[1] = mask_row)[2]

\* get_mask_subset_prob on one row: every result over the torch.rand draws
\* of line 40 and the argsort of line 43
get_mask_subset_prob(mask_row, prob, min_mask) ==
    {SubsetFromRandperm(mask_row, prob, min_mask, randperm) :
        randperm \in Randperms(mask_row)}

\* the batch: rows 1 .. b, each row's keys drawn independently
RECURSIVE SubsetOutcomes(_, _, _, _)
SubsetOutcomes(b, m, prob, min_mask) ==
    IF b = 0 THEN {<< >>}
    ELSE {Append(rest, row) :
            rest \in SubsetOutcomes(b - 1, m, prob, min_mask),
            row \in get_mask_subset_prob(m[b], prob, min_mask)}

\* a call of get_mask_subset_prob with the arguments held in sub
GetMaskSubsetProb ==
    /\ pc = "sub_call"
    /\ \E out \in SubsetOutcomes(Len(sub.mask), sub.mask, sub.prob, sub.min_mask) :
         sub' = [sub EXCEPT !.out = out]
    /\ pc' = "sub_done"
    /\ UNCHANGED << self_vars, raised, gen_vars, net_vars, fwd >>

\* the arguments of a call: a batch of boolean rows, a probability, min_mask
InitSubset ==
    /\ pc = "sub_call"
    /\ schedule_arg = None
    /\ schedule_fn = None
    /\ steps = 0
    /\ self_cond = FALSE
    /\ mask_id = NoId
    /\ no_replace_prob = Zero
    /\ random_token_prob = Zero
    /\ Idle
    /\ \E b \in 1 .. MaxSubsetBatch :
         \E m \in [1 .. b -> [Pos -> BOOLEAN]], prob \in SubsetProbs,
            min_mask \in MinMasks :
           sub = [mask |-> m, prob |-> prob, min_mask |-> min_mask, out |-> << >>]

NextSubset == GetMaskSubsetProb

SpecSubset == InitSubset /\ [][NextSubset]_vars

\* --------------------------------------------------------------- forward
\* forward on a batch of one row (b = 1): lines 205-233 act on each row
\* alike, the two coin flips and frac_seq_left being shared by the batch

\* torch.empty(b).uniform_(0, 1): a time in [0, 1) on a grid
RandTimes == {(i * One) \div TimeGrid : i \in 0 .. (TimeGrid - 1)}

\* t[m] for a row: the values at the positions where m is true, in order
RECURSIVE Index(_, _, _)
Index(t, m, i) ==
    IF i > Len(t) THEN << >>
    ELSE (IF m[i] THEN << t[i] >> ELSE << >>) \o Index(t, m, i + 1)

\* lines 206-210: the primary mask of a row from its time and its keys
PrimaryMask(rand_time, keys) ==
    LET batched_randperm == CHOOSE p \in Argsort(keys) : TRUE
        rand_probs == schedule_apply(schedule_fn, rand_time)
        num_tokens_mask == Max(rand_probs * MaxSeqLen, One)
    IN  [i \in Pos |-> (batched_randperm[i] - 1) * One < num_tokens_mask]

PrimaryMasks ==
    {PrimaryMask(rand_time, keys) : rand_time \in RandTimes, keys \in RandKeys}

\* lines 202-218
ForwardMask ==
    /\ pc = "ready"
    /\ \E n \in {MaxSeqLen - 1, MaxSeqLen} :
         IF n # MaxSeqLen
         THEN /\ raised' = "AssertionError"
              /\ pc' = "error"
              /\ fwd' = fwd
         ELSE /\ \E x \in [Pos -> Vocab], m \in PrimaryMasks :
                   fwd' = [fwd EXCEPT !.x_arg = x, !.x = x, !.mask = m,
                                      !.primary_mask = m,
                                      !.labels = Index(x, m, 1),
                                      !.replace_mask_id_mask = m,
                                      !.no_replace_prob_mask = AllFalse,
                                      !.random_token_prob_mask = AllFalse,
                                      !.frac_seq_left = Unit]
              /\ pc' = "fwd_no_replace"
              /\ raised' = raised
    /\ UNCHANGED << self_vars, gen_vars, net_vars, sub >>

\* 1 - p and p * q for rationals
OneMinus(p) == << p[2] - p[1], p[2] >>
Times(p, q) == << p[1] * q[1], p[2] * q[2] >>

\* lines 220-224
ForwardNoReplace ==
    /\ pc = "fwd_no_replace"
    /\ \E coin_flip \in BOOLEAN :
         IF no_replace_prob[1] > 0 /\ coin_flip
         THEN \E no_replace_prob_mask \in
                    get_mask_subset_prob(fwd.mask, no_replace_prob, 0) :
                fwd' = [fwd EXCEPT
                          !.frac_seq_left = OneMinus(no_replace_prob),
                          !.no_replace_prob_mask = no_replace_prob_mask,
                          !.replace_mask_id_mask =
                              And(fwd.replace_mask_id_mask, Not(no_replace_prob_mask)),
                          !.no_replace_fired = TRUE]
         ELSE fwd' = fwd
    /\ pc' = "fwd_random_token"
    /\ UNCHANGED << self_vars, raised, gen_vars, net_vars, sub >>

\* the random-token subset drawn from the whole primary mask
RandomTokenEligiblePrimary(f) == f.mask

\* line 227: the mask the random-token subset is drawn from
RandomTokenEligible(f) == f.replace_mask_id_mask

\* lines 226-231
ForwardRandomToken ==
    /\ pc = "fwd_random_token"
    /\ \E coin_flip \in BOOLEAN :
         IF random_token_prob[1] > 0 /\ coin_flip
         THEN \E random_token_prob_mask \in
                    get_mask_subset_prob(RandomTokenEligible(fwd),
                                         Times(random_token_prob, fwd.frac_seq_left), 0),
                 random_tokens \in [Pos -> Vocab] :
                fwd' = [fwd EXCEPT
                          !.random_token_prob_mask = random_token_prob_mask,
                          !.x = Where(random_token_prob_mask, random_tokens, fwd.x),
                          !.replace_mask_id_mask =
                              And(fwd.replace_mask_id_mask, Not(random_token_prob_mask)),
                          !.random_token_fired = TRUE]
         ELSE fwd' = fwd
    /\ pc' = "fwd_loss"
    /\ UNCHANGED << self_vars, raised, gen_vars, net_vars, sub >>

\* line 233
Masked(replace_mask_id_mask, x) ==
    Where(replace_mask_id_mask, [i \in Pos |-> mask_id], x)

\* the loss taken over the positions that got the mask token only
LossPositionsReplaced(f) == f.replace_mask_id_mask

\* lines 252-255: the positions whose logits enter the cross entropy, and
\* the labels it compares them with
LossPositions(f) == f.mask
LossLabels(f) == f.labels

\* lines 233-257
ForwardLoss ==
    /\ pc = "fwd_loss"
    /\ \E sample_prob \in BOOLEAN, embeds \in Embeds :
         IF self_cond
         THEN /\ sum_embeds' = to_self_cond(IF sample_prob THEN embeds ELSE null_embed)
              /\ net_embeds' = IF sample_prob THEN embeds ELSE net_embeds
         ELSE UNCHANGED net_vars
    /\ fwd' = [fwd EXCEPT !.masked = Masked(fwd.replace_mask_id_mask, fwd.x),
                          !.loss_positions = LossPositions(fwd),
                          !.loss_labels = LossLabels(fwd)]
    /\ pc' = "fwd_done"
    /\ UNCHANGED << self_vars, raised, gen_vars, sub >>

\* a wrapper as the constructor leaves it
InitForward ==
    /\ pc = "ready"
    /\ schedule_arg \in {"linear", "cosine"}
    /\ schedule_fn = schedule_arg
    /\ steps = MaxSteps
    /\ self_cond \in BOOLEAN
    /\ mask_id = NumTokens
    /\ no_replace_prob \in NoReplaceProbs
    /\ random_token_prob \in RandomTokenProbs
    /\ Idle
    /\ sub = NoSub

NextForward ==
    ForwardMask \/ ForwardNoReplace \/ ForwardRandomToken \/ ForwardLoss

SpecForward == InitForward /\ [][NextForward]_vars

Next == Construct \/ GenerateStart \/ GenerateRound \/ GenerateReturn

Spec == Init /\ [][Next]_vars
\* ------------------------------------------------------------------ claims

\* C1: a callable passed as `schedule` is accepted (no error, and it becomes
\* the wrapper's schedule function); a configuration error is raised only
\* for a value that is neither a callable nor 'linear' nor 'cosine'.
C1_CallableAccepted ==
    pc # "new" =>
       /\ (schedule_arg = "callable" =>
              raised = None /\ schedule_fn = "callable")
       /\ (raised = "ValueError" =>
              schedule_arg \notin {"linear", "cosine", "callable"})

\* C2: at the end of every round of generate, each row's mask holds exactly
\* as many true entries as the truncated schedule value of that round,
\* trunc(schedule(round / steps) * max_seq_len) for round = 1 .. steps.
C2_MaskCount ==
    (pc \in {"gen", "done"} /\ rnd >= 1) =>
       \A r \in Rows :
          /\ Sum(mask[r]) = all_mask_num_tokens[rnd]
          /\ Sum(mask[r]) =
                Long(schedule_apply(schedule_fn, linspace(steps, rnd)) * MaxSeqLen)

C2_Witness ==
    /\ pc = "gen"
    /\ rnd >= 2
    /\ \A r \in Rows : Sum(mask[r]) \in 1 .. (MaxSeqLen - 1)

\* C3: a position that is unmasked keeps its token in every later round and
\* in the returned sequence: a round writes sampled tokens only where the
\* mask bit is true.
C3_UnmaskedKept ==
    [][pc = "gen" =>
         \A r \in DOMAIN seq : \A i \in Pos :
            ~mask[r][i] =>
               /\ seq'[r][i] = seq[r][i]
               /\ (pc' = "done" =>
                      IF batch_size = NoBatch THEN result'[i] = seq[r][i]
                      ELSE result'[r][i] = seq[r][i])]_vars

C3_Witness ==
    /\ pc = "done"
    /\ steps >= 2
    /\ all_mask_num_tokens[steps - 1] < MaxSeqLen
    /\ \E r \in Rows : \E i, j \in Pos : seq[r][i] # seq[r][j]

\* C4: with the linear schedule the last round's target mask count is 0, so
\* the returned sequence has no masked position and (the net never sampling
\* mask_id) no occurrence of mask_id.
C4_LinearFullyUnmasked ==
    (pc = "done" /\ schedule_fn = "linear") =>
       /\ all_mask_num_tokens[steps] = 0
       /\ \A r \in Rows : \A i \in Pos : ~mask[r][i] /\ seq[r][i] # mask_id
       /\ IF batch_size = NoBatch
          THEN \A i \in Pos : result[i] # mask_id
          ELSE \A r \in Rows : \A i \in Pos : result[r][i] # mask_id

C4_Witness == pc = "done" /\ schedule_fn = "linear" /\ steps = 1

\* C5: in every row the number of positions get_mask_subset_prob selects is
\* within 1 of the larger of round(E * p) and min_mask, E the row's count
\* of eligible positions; with the rounding's own half, the count is within
\* 3/2 of the larger of E * p and min_mask.
C5_SelectedCount ==
    pc = "sub_done" =>
       \A r \in DOMAIN sub.out :
          LET count == 2 * sub.prob[2] * Sum(sub.out[r])
              target == 2 * Max(Sum(sub.mask[r]) * sub.prob[1],
                                sub.min_mask * sub.prob[2])
          IN  /\ count - target <= 3 * sub.prob[2]
              /\ target - count <= 3 * sub.prob[2]

\* C6: every position get_mask_subset_prob selects is true in the input
\* mask, row by row.
C6_SubsetOfMask ==
    pc = "sub_done" =>
       \A r \in DOMAIN sub.out : \A i \in Pos : sub.out[r][i] => sub.mask[r][i]

C6_Witness ==
    /\ pc = "sub_done"
    /\ \E r \in DOMAIN sub.out :
          /\ Sum(sub.out[r]) >= 1
          /\ Sum(sub.mask[r]) < MaxSeqLen
          /\ Sum(sub.out[r]) < Sum(sub.mask[r])

\* C7: the positions whose logits and labels enter the cross entropy are
\* exactly the primary mask, and the labels are the original tokens there,
\* whether or not the no-replace and the random-token branches fired.
C7_LossOnPrimaryMask ==
    pc = "fwd_done" =>
       /\ fwd.loss_positions = fwd.primary_mask
       /\ fwd.loss_labels = Index(fwd.x_arg, fwd.primary_mask, 1)

C7_Witness ==
    /\ pc = "fwd_done"
    /\ fwd.no_replace_fired
    /\ fwd.random_token_fired
    /\ fwd.replace_mask_id_mask # fwd.primary_mask
    /\ \E i \in Pos : fwd.primary_mask[i] /\ fwd.x[i] # fwd.x_arg[i]

\* C8: the positions re-masked at the end of a round were all masked at its
\* start: the masked set of a row only shrinks from round to round.
C8_MaskShrinks ==
    [][(pc = "gen" /\ rnd' = rnd + 1) =>
         \A r \in DOMAIN mask : \A i \in Pos : mask'[r][i] => mask[r][i]]_vars

C8_Witness ==
    /\ pc = "gen"
    /\ rnd >= 2
    /\ all_mask_num_tokens[rnd - 1] < MaxSeqLen
    /\ all_mask_num_tokens[rnd] > 0

\* C9: the corrupted input equals the original outside the primary mask,
\* and every primary-masked position is in exactly one of three groups:
\* given the mask token, left at its original token (no-replace subset),
\* given a random vocabulary id (random-token subset).
C9_CorruptedInput ==
    pc = "fwd_done" =>
       \A i \in Pos :
          LET to_mask_id == fwd.replace_mask_id_mask[i]
              kept == fwd.no_replace_prob_mask[i]
              random == fwd.random_token_prob_mask[i]
          IN  IF fwd.primary_mask[i]
              THEN /\ (to_mask_id /\ ~kept /\ ~random)
                        \/ (~to_mask_id /\ kept /\ ~random)
                        \/ (~to_mask_id /\ ~kept /\ random)
                   /\ to_mask_id => fwd.masked[i] = mask_id
                   /\ kept => fwd.masked[i] = fwd.x_arg[i]
                   /\ random => fwd.masked[i] \in Vocab
              ELSE /\ fwd.masked[i] = fwd.x_arg[i]
                   /\ ~to_mask_id /\ ~kept /\ ~random

C9_Witness ==
    /\ pc = "fwd_done"
    /\ \E i, j, k \in Pos :
          /\ fwd.replace_mask_id_mask[i]
          /\ fwd.no_replace_prob_mask[j]
          /\ fwd.random_token_prob_mask[k] /\ fwd.masked[k] # fwd.x_arg[k]

\* C10: with self-conditioning the net gets, in round 0, the projection of
\* the null embedding and, in every later round, the projection of the
\* embeddings it returned in the round before; without it, no bias.
C10_SelfCondBias ==
    [][(pc = "gen" /\ rnd' = rnd + 1) =>
         sum_embeds' = IF ~self_cond THEN NoBias
                       ELSE IF rnd = 0 THEN to_self_cond(null_embed)
                       ELSE to_self_cond(net_embeds)]_vars

C10_Witness ==
    /\ pc = "gen"
    /\ self_cond
    /\ rnd >= 2
    /\ sum_embeds # to_self_cond(net_embeds)
    /\ sum_embeds # to_self_cond(null_embed)
====
